---- MODULE Spec2Model ----
(***************************************************************************)
(* A model of the SQL-exercise test harness of Vivancedata/learn:          *)
(*   - load_queries, the "-- Query: name" block extractor                  *)
(*     (test_select_basics.py, test_filtering.py, test_joins.py);          *)
(*   - the db and queries fixtures and the test bodies that use them;      *)
(*   - the same tests run by two worker processes at once;                 *)
(*   - conftest.py: the change_test_dir fixture, the imports of the test   *)
(*     modules of several exercise directories, and the category markers;  *)
(*   - the reference solutions of the Python exercises.                    *)
(*                                                                         *)
(* Text is modelled as a sequence of tokens.  Every token is a run of      *)
(* characters of one class, so the regular expression and the str methods  *)
(* of the code act on tokens exactly as they act on the characters:        *)
(*   MARK   the literal "-- Query:"            SP  one space               *)
(*   NL     a line feed                        DASH2  "--"                 *)
(*   SEMI   ";" (neither \w nor \s)            any other string: \w+ chars *)
(***************************************************************************)
EXTENDS Integers, Sequences, FiniteSets, TLC

VARIABLES
  content,     \* the text of exercise.sql
  fileExists,  \* whether exercise.sql exists
  result,      \* what a single call of load_queries returned
  loadPc,      \* "start" before that call, "done" after it
  cur,         \* the number of the test the runner is at
  pc,          \* the next step of that test
  conns,       \* the connections the db fixture created, in order
  queries,     \* the value of the queries fixture of the current test
  outcome,     \* test -> how it ended
  executed,    \* test -> statements its body executed on the connection
  loads,       \* the mappings load_queries returned, one per invocation
  exercise,    \* the exercise directory of the SQL test file that runs
  dbs,         \* the databases sqlite3.connect opened, in order
  workers,     \* worker process -> the step and the connection of its test
  env,         \* the interpreter's working directory, sys.path, sys.modules
  session,     \* the pytest session over several exercise directories
  call         \* one call of a function of the Python exercises

vars == <<content, fileExists, result, loadPc, cur, pc, conns, queries,
          outcome, executed, loads, exercise, dbs, workers, env, session, call>>

harnessVars == <<fileExists, cur, pc, conns, queries, outcome, executed, loads,
                 exercise, dbs, workers, env, session, call>>

----------------------------------------------------------------------------
(* Tokens *)

MARK == "-- Query:"
SP == " "
NL == "\n"
DASH2 == "--"
SEMI == ";"
DOT == "."
PASS == "pass"

IsSpace(t) == t \in {SP, NL}
IsWord(t) == t \notin {MARK, SP, NL, DASH2, SEMI, DOT}

----------------------------------------------------------------------------
(* str methods *)

RECURSIVE LStripFrom(_, _)
LStripFrom(s, i) ==
  IF i > Len(s) THEN Len(s) + 1
  ELSE IF IsSpace(s[i]) THEN LStripFrom(s, i + 1) ELSE i

RECURSIVE RStripFrom(_, _)
RStripFrom(s, j) ==
  IF j < 1 THEN 0
  ELSE IF IsSpace(s[j]) THEN RStripFrom(s, j - 1) ELSE j

\* str.strip(): the text without its leading and trailing whitespace
Strip(s) ==
  LET i == LStripFrom(s, 1)
      j == RStripFrom(s, Len(s))
  IN IF i > j THEN <<>> ELSE SubSeq(s, i, j)

\* str.startswith('--'): true of a text whose first characters are "--"
StartsWithDashes(s) == Len(s) > 0 /\ s[1] \in {DASH2, MARK}

RECURSIVE SplitFrom(_, _, _)
SplitFrom(s, i, line) ==
  IF i > Len(s) THEN <<line>>
  ELSE IF s[i] = NL THEN <<line>> \o SplitFrom(s, i + 1, <<>>)
       ELSE SplitFrom(s, i + 1, Append(line, s[i]))

\* str.split('\n')
SplitLines(s) == SplitFrom(s, 1, <<>>)

RECURSIVE JoinLines(_)
\* '\n'.join(lines)
JoinLines(ls) ==
  IF Len(ls) = 0 THEN <<>>
  ELSE IF Len(ls) = 1 THEN ls[1]
       ELSE ls[1] \o <<NL>> \o JoinLines(Tail(ls))

----------------------------------------------------------------------------
(* re.findall(r'-- Query: (\w+)\s*\n(.*?)(?=-- Query:|$)', content,        *)
(*            re.DOTALL)                                                   *)

RECURSIVE WordEnd(_, _)
\* \w+ is greedy: the first position at or after i that holds no word token
WordEnd(s, i) ==
  IF i <= Len(s) /\ IsWord(s[i]) THEN WordEnd(s, i + 1) ELSE i

RECURSIVE SpaceEnd(_, _)
\* \s* is greedy: the first position at or after i that holds no whitespace
SpaceEnd(s, i) ==
  IF i <= Len(s) /\ IsSpace(s[i]) THEN SpaceEnd(s, i + 1) ELSE i

\* \s*\n: \s* gives back characters until \n matches, so \n is the last
\* line feed of the whitespace run lo..hi-1 (0: the run holds none)
LastNL(s, lo, hi) ==
  LET nls == {j \in lo..(hi - 1) : s[j] = NL}
  IN IF nls = {} THEN 0 ELSE CHOOSE j \in nls : \A k \in nls : k <= j

RECURSIVE BodyEnd(_, _)
\* (.*?)(?=-- Query:|$): the lazy body stops at the first position where
\* "-- Query:" follows, or at the end of the text, or before a line feed
\* that ends the text ($ without re.MULTILINE)
BodyEnd(s, p) ==
  IF p > Len(s) THEN p
  ELSE IF s[p] = MARK THEN p
       ELSE IF p = Len(s) /\ s[p] = NL THEN p
            ELSE BodyEnd(s, p + 1)

\* the match of the pattern that starts at position i, if there is one
MatchAt(s, i) ==
  LET nameStart == i + 2
      nameEnd == WordEnd(s, nameStart)
      wsEnd == SpaceEnd(s, nameEnd)
      nl == LastNL(s, nameEnd, wsEnd)
      bodyStart == nl + 1
      bodyEnd == BodyEnd(s, bodyStart)
  IN IF /\ i + 1 <= Len(s)
        /\ s[i] = MARK
        /\ s[i + 1] = SP
        /\ nameEnd > nameStart
        /\ nl # 0
     THEN [ok |-> TRUE,
           name |-> SubSeq(s, nameStart, nameEnd - 1),
           body |-> SubSeq(s, bodyStart, bodyEnd - 1),
           start |-> i,
           next |-> bodyEnd]
     ELSE [ok |-> FALSE, name |-> <<>>, body |-> <<>>, start |-> i, next |-> i + 1]

\* re.findall: the non-overlapping matches of the pattern, left to right; the
\* scan resumes where a match ended, and one position on where none starts
FindAll(s) ==
  LET from[pos \in 1..(Len(s) + 1)] ==
        IF pos > Len(s) THEN <<>>
        ELSE LET m == MatchAt(s, pos)
             IN IF m.ok THEN <<m>> \o from[m.next] ELSE from[pos + 1]
  IN from[1]

----------------------------------------------------------------------------
(* load_queries *)

\* KeepLine with startswith applied to the line itself, not to line.strip()
KeepLine_NoStrip(line) ==
  Strip(line) # <<>> /\ ~StartsWithDashes(line)

\* the lines of a block that are kept: not blank and not a comment
KeepLine(line) ==
  LET stripped == Strip(line)
  IN stripped # <<>> /\ ~StartsWithDashes(stripped)

\* QueryOf without the final strip()
QueryOf_NoTrim(query_block) ==
  JoinLines(SelectSeq(SplitLines(Strip(query_block)), KeepLine))

\* the text of a block: the kept lines, joined and stripped
QueryOf(query_block) ==
  Strip(JoinLines(SelectSeq(SplitLines(Strip(query_block)), KeepLine)))

\* IsStored without the comparison with the placeholder
IsStored_NoPass(query) == query # <<>>

\* if query and query != 'pass'
IsStored(query) == query # <<>> /\ query # <<PASS>>

EmptyMap == [n \in {} |-> <<>>]

\* Store that keeps the entry a name already has
Store_KeepFirst(q, name, query) ==
  [n \in DOMAIN q \cup {name} |-> IF n \in DOMAIN q THEN q[n] ELSE query]

\* queries[name] = query
Store(q, name, query) ==
  [n \in DOMAIN q \cup {name} |-> IF n = name THEN query ELSE q[n]]

RECURSIVE LoadLoop(_, _, _)
\* for name, query_block in matches: ...
LoadLoop(matches, i, q) ==
  IF i > Len(matches) THEN q
  ELSE LET query == QueryOf(matches[i].body)
       IN LoadLoop(matches, i + 1,
                   IF IsStored(query) THEN Store(q, matches[i].name, query) ELSE q)

load_queries(text) == LoadLoop(FindAll(text), 1, EmptyMap)

----------------------------------------------------------------------------
(* Query files: up to MaxPieces pieces, one per line or group of lines *)

MaxPieces == 3

Pieces ==
  { <<MARK, SP, "A">>,                      \* -- Query: A
    <<MARK, SP, "B">>,                      \* -- Query: B
    <<MARK, SP, "A", SP>>,                  \* marker with trailing space
    <<MARK, SP, "A", SP, "B">>,             \* -- Query: A B
    <<MARK, "A">>,                          \* -- Query:A
    <<"x", SP, MARK, SP, "A">>,             \* marker text after other text
    <<"SELECT", SP, "1", SEMI>>,
    <<SP, "SELECT", SP, "2", SEMI, SP>>,
    <<DASH2, SP, "comment">>,
    <<SP, DASH2, "comment">>,
    <<>>,
    <<SP>>,
    <<PASS>>,
    <<SP, PASS, SP>>,
    <<MARK, SP, "A", NL, "SELECT", SP, "1", SEMI>>,
    <<MARK, SP, "B", NL, DASH2, SP, "comment", NL, "SELECT", SP, "2", SEMI>>,
    <<MARK, SP, "B", NL, "SELECT", SP, "C", DOT, "n", SP, "o", DOT, "d">> }

TextsOf(n) == {JoinLines(ps) : ps \in UNION {[1..k -> Pieces] : k \in 0..n}}

NotLoaded == "not loaded"

\* an outcome: how a test ended, the exception that ended it, its message
Ended(kind, exc, msg) == [kind |-> kind, exc |-> exc, msg |-> msg]

NotRun == Ended("not run", "", <<>>)

\* the queries fixture before it has returned
NoValue == [set |-> FALSE, map |-> EmptyMap]

----------------------------------------------------------------------------
(* The databases of the db fixture.  A database is its name, whether it    *)
(* still exists, and its tables: table name -> set of rows.                *)

Exercises == {"01-select-basics", "02-filtering", "03-joins"}

\* SCHEMA: the tables the CREATE TABLE statements of an exercise create
SCHEMA(ex) ==
  CASE ex = "01-select-basics" -> {"products"}
    [] ex = "02-filtering" -> {"employees"}
    [] ex = "03-joins" -> {"customers", "orders", "order_items"}

\* SAMPLE_DATA with the last product left out
SAMPLE_DATA_Short(ex) ==
  CASE ex = "01-select-basics" -> [t \in {"products"} |-> 1..7]
    [] ex = "02-filtering" -> [t \in {"employees"} |-> 1..8]
    [] ex = "03-joins" ->
         [t \in {"customers", "orders", "order_items"} |->
            CASE t = "customers" -> 1..4
              [] t = "orders" -> 101..104
              [] t = "order_items" -> 1..6]

\* SAMPLE_DATA: the primary keys of the rows the INSERT statements insert
SAMPLE_DATA(ex) ==
  CASE ex = "01-select-basics" -> [t \in {"products"} |-> 1..8]
    [] ex = "02-filtering" -> [t \in {"employees"} |-> 1..8]
    [] ex = "03-joins" ->
         [t \in {"customers", "orders", "order_items"} |->
            CASE t = "customers" -> 1..4
              [] t = "orders" -> 101..104
              [] t = "order_items" -> 1..6]

\* a row: its primary key, and "seed" while its columns are as inserted
Row(id, v) == [id |-> id, v |-> v]

NoTables == [t \in {} |-> {}]

NewDatabase(name) == [name |-> name, live |-> TRUE, tables |-> NoTables]

\* a database file on disk instead of the in-memory database
DatabaseName_File == "exercise.db"

\* the database the db fixture connects to
DatabaseName == ":memory:"

\* sqlite3.connect(name): ':memory:' opens a new, empty database private to
\* the connection; another name opens the file database of that name, which
\* is created empty when there is none.  The number of the database opened.
connect(ds, name) ==
  LET same == {d \in 1..Len(ds) : ds[d].name = name /\ name # ":memory:"}
  IN IF same = {} THEN Len(ds) + 1 ELSE CHOOSE d \in same : TRUE

\* the databases after connect(name)
Opened(ds, name) ==
  IF connect(ds, name) > Len(ds) THEN Append(ds, NewDatabase(name)) ELSE ds

\* cursor.executescript(SCHEMA): the tables are created, empty.  (CREATE
\* TABLE raises on a table that exists; a new database has none.)
CreateTables(tables, ex) ==
  [t \in DOMAIN tables \cup SCHEMA(ex) |->
     IF t \in DOMAIN tables THEN tables[t] ELSE {}]

\* cursor.executescript(SAMPLE_DATA): the rows are added to their tables
InsertSeed(tables, ex) ==
  [t \in DOMAIN tables |->
     IF t \in DOMAIN SAMPLE_DATA(ex)
     THEN tables[t] \cup {Row(i, "seed") : i \in SAMPLE_DATA(ex)[t]}
     ELSE tables[t]]

\* conn.close(): an in-memory database goes with its connection, a file stays
Closed(db) ==
  IF db.name = ":memory:" THEN [db EXCEPT !.live = FALSE, !.tables = NoTables]
  ELSE db

\* the statements a query of the learner can be: it reads, or it changes rows
Statements == {"select", "insert", "update", "delete"}

\* the table the statements of an exercise work on
Target(ex) ==
  CASE ex = "01-select-basics" -> "products"
    [] ex = "02-filtering" -> "employees"
    [] ex = "03-joins" -> "orders"

\* cursor.execute(query) when the engine accepts the statement
Execute(tables, stmt, t) ==
  CASE stmt = "select" -> tables
    [] stmt = "insert" -> [tables EXCEPT ![t] = @ \cup {Row(0, "new")}]
    [] stmt = "update" -> [tables EXCEPT ![t] = {Row(r.id, "changed") : r \in @}]
    [] stmt = "delete" -> [tables EXCEPT ![t] = {}]

\* SELECT * FROM table, through a connection to the database
SelectAll(db, table) == db.tables[table]

\* a connection as sqlite3.connect returns it: open, on database d
NewConn(d) ==
  [state |-> "open", schema |-> FALSE, seeded |-> FALSE, committed |-> FALSE,
   handed |-> FALSE, db |-> d, owners |-> {}, changed |-> FALSE,
   raised |-> FALSE]

\* the db fixture without its commit
Commit_Skipped(c) == c

\* conn.commit()
Commit(c) == [c EXCEPT !.committed = TRUE]

\* yield conn: the test that requested the fixture receives the connection
Yield(c, t) == [c EXCEPT !.handed = TRUE, !.owners = @ \cup {t}]

\* the values of the variables of a run that does not use them
NoWorkers == <<>>

NoEnv == [cwd |-> "", path |-> <<>>, modules |-> <<>>]

NoSession == [pc |-> "off"]

NoCall == [pc |-> "off"]

InitLoad ==
  /\ content \in TextsOf(MaxPieces)
  /\ fileExists = TRUE
  /\ result = NotLoaded
  /\ loadPc = "start"
  /\ cur = 0
  /\ pc = "off"
  /\ conns = <<>>
  /\ queries = NoValue
  /\ outcome = <<>>
  /\ executed = <<>>
  /\ loads = <<>>
  /\ exercise = "01-select-basics"
  /\ dbs = <<>>
  /\ workers = NoWorkers
  /\ env = NoEnv
  /\ session = NoSession
  /\ call = NoCall

\* one call of load_queries on the text of the file
Load ==
  /\ loadPc = "start"
  /\ result' = load_queries(content)
  /\ loadPc' = "done"
  /\ UNCHANGED <<content, harnessVars>>

NextLoad == Load

SpecLoad == InitLoad /\ [][NextLoad]_vars

----------------------------------------------------------------------------
(* The run of one SQL test file: pytest runs its tests one after another.  *)
(* A test takes the fixtures db and queries, set up in that order; the db  *)
(* fixture resumes after its yield when the test is over, however it ended. *)

NumTests == 2
MaxFilePieces == 2

Tests == 1..NumTests

\* the files of the run: blocks A and B, filled in, left empty or as 'pass'
FilePieces ==
  { <<MARK, SP, "A", NL, "SELECT", SP, "1", SEMI>>,
    <<MARK, SP, "B", NL, DASH2, SP, "comment", NL, "SELECT", SP, "2", SEMI>>,
    <<MARK, SP, "B", NL, "SELECT", SP, "C", DOT, "n", SP, "o", DOT, "d">>,
    <<MARK, SP, "B">>,
    <<PASS>>,
    <<"x", SP, MARK, SP, "A">> }

Files == {JoinLines(ps) : ps \in UNION {[1..k -> FilePieces] : k \in 0..MaxFilePieces}}

\* query = queries.get('<name>'): the name each test asks for
TestQuery(t) == IF t % 2 = 1 THEN <<"A">> ELSE <<"B">>

\* test_table_aliases also asserts on the text of the query before it runs it
ChecksAliases(t) == t % 2 = 0

\* str.lower(), on the tokens of the files
Lower(t) ==
  CASE t = "A" -> "a"
    [] t = "B" -> "b"
    [] t = "C" -> "c"
    [] t = "SELECT" -> "select"
    [] OTHER -> t

LowerText(q) == [i \in 1..Len(q) |-> Lower(q[i])]

\* ' c ' in query_lower or ' c.' in query_lower
HasAlias(q, a) ==
  \E i \in 1..(Len(q) - 2) : q[i] = SP /\ q[i + 1] = a /\ q[i + 2] \in {SP, DOT}

UsesAliases(query) ==
  HasAlias(LowerText(query), "c") /\ HasAlias(LowerText(query), "o")

\* load_queries() on each file of the run, computed once per text
\* load_queries of test_joins.py that passes over the first block
load_queries_joins_SkipFirst(text) == LoadLoop(FindAll(text), 2, EmptyMap)

\* load_queries as test_filtering.py defines it
load_queries_filtering(text) == LoadLoop(FindAll(text), 1, EmptyMap)

\* load_queries as test_joins.py defines it
load_queries_joins(text) == LoadLoop(FindAll(text), 1, EmptyMap)

\* the load_queries of the test file of an exercise
LoadQueriesOf(ex, text) ==
  CASE ex = "01-select-basics" -> load_queries(text)
    [] ex = "02-filtering" -> load_queries_filtering(text)
    [] ex = "03-joins" -> load_queries_joins(text)

QueriesOf ==
  [ex \in Exercises |-> [text \in Files |-> LoadQueriesOf(ex, text)]]

\* dict.get(name): None when the name has no entry
Get(q, name) ==
  IF name \in DOMAIN q THEN [none |-> FALSE, text |-> q[name]]
  ELSE [none |-> TRUE, text |-> <<>>]

\* the truth value of the query in "assert query": None and '' are false
Truthy(query) == ~query.none /\ query.text # <<>>

\* sql_file.read_text(), called by the queries fixture of test t
read_text_Consumed(t) == IF t = 1 THEN content ELSE <<>>

read_text(t) == content

\* a lookup of the name that raises instead of returning None
MissingQuery_KeyError(name) == Ended("error", "KeyError", name)

\* assert query, "Query '<name>' not found or empty"
MissingQuery(name) ==
  Ended("failed", "AssertionError", <<"Query '">> \o name \o <<"' not found or empty">>)

\* the close after the yield, run only when the test passed
AfterTest_OnlyOnPass(kind) == IF kind = "passed" THEN "close" ELSE "end"

\* the step after the test is over: the db fixture resumes after its yield
AfterTest(kind) == "close"

\* a queries fixture declared with scope='module'
FixtureScope_Module == "module"

\* @pytest.fixture without a scope: the fixture is set up for every test
FixtureScope == "function"

\* a missing query file read as an empty one
FileNotFound_Ignored == FALSE

\* sql_file.read_text() raises FileNotFoundError when the file does not exist
FileNotFound == ~fileExists

\* an exception of the test body that the test catches
Raised_Swallowed(exc) == Ended("passed", "", <<>>)

\* an exception raised in the body of a test: nothing catches it, and the
\* runner reports the test as failed
Raised(exc) == Ended("failed", exc, <<>>)

\* the parts of the state the run of one SQL test file leaves alone
idle == <<workers, env, session, call>>

Init ==
  /\ \/ fileExists = TRUE /\ content \in Files
     \/ fileExists = FALSE /\ content = <<>>
  /\ result = NotLoaded
  /\ loadPc = "off"
  /\ cur = 1
  /\ pc = "connect"
  /\ conns = <<>>
  /\ queries = NoValue
  /\ outcome = [t \in Tests |-> NotRun]
  /\ executed = [t \in Tests |-> 0]
  /\ loads = <<>>
  /\ exercise \in Exercises
  /\ dbs = <<>>
  /\ workers = NoWorkers
  /\ env = NoEnv
  /\ session = NoSession
  /\ call = NoCall

Conn == Len(conns)

\* conn = sqlite3.connect(':memory:')
DbConnect ==
  /\ cur \in Tests
  /\ pc = "connect"
  /\ conns' = Append(conns, NewConn(connect(dbs, DatabaseName)))
  /\ dbs' = Opened(dbs, DatabaseName)
  /\ pc' = "schema"
  /\ UNCHANGED <<content, fileExists, result, loadPc, cur, queries, outcome,
                 executed, loads, exercise, idle>>

\* cursor.executescript(SCHEMA)
DbSchema ==
  /\ pc = "schema"
  /\ conns' = [conns EXCEPT ![Conn].schema = TRUE]
  /\ dbs' = [dbs EXCEPT ![conns[Conn].db].tables = CreateTables(@, exercise)]
  /\ pc' = "seed"
  /\ UNCHANGED <<content, fileExists, result, loadPc, cur, queries, outcome,
                 executed, loads, exercise, idle>>

\* cursor.executescript(SAMPLE_DATA)
DbSeed ==
  /\ pc = "seed"
  /\ conns' = [conns EXCEPT ![Conn].seeded = TRUE]
  /\ dbs' = [dbs EXCEPT ![conns[Conn].db].tables = InsertSeed(@, exercise)]
  /\ pc' = "commit"
  /\ UNCHANGED <<content, fileExists, result, loadPc, cur, queries, outcome,
                 executed, loads, exercise, idle>>

\* conn.commit(); yield conn
DbCommitYield ==
  /\ pc = "commit"
  /\ conns' = [conns EXCEPT ![Conn] = Yield(Commit(@), cur)]
  /\ pc' = "queries"
  /\ UNCHANGED <<content, fileExists, result, loadPc, cur, queries, outcome,
                 executed, loads, exercise, dbs, idle>>

\* the queries fixture: return load_queries().  A fixture of function scope
\* is set up for every test; one of a wider scope keeps its first value.
QueriesFixture ==
  /\ pc = "queries"
  /\ IF FixtureScope # "function" /\ queries.set
     THEN /\ pc' = "lookup"
          /\ UNCHANGED <<queries, loads, outcome>>
     ELSE IF FileNotFound
          THEN /\ outcome' = [outcome EXCEPT ![cur] =
                                Ended("error", "FileNotFoundError", <<>>)]
               /\ pc' = AfterTest("error")
               /\ UNCHANGED <<queries, loads>>
          ELSE LET returned == QueriesOf[exercise][read_text(cur)]
               IN /\ queries' = [set |-> TRUE, map |-> returned]
                  /\ loads' = Append(loads, returned)
                  /\ pc' = "lookup"
                  /\ UNCHANGED outcome
  /\ UNCHANGED <<content, fileExists, result, loadPc, cur, conns, executed,
                 exercise, dbs, idle>>

\* query = queries.get(name); assert query, "..."; the asserts on its text
TestLookup ==
  /\ pc = "lookup"
  /\ LET query == Get(queries.map, TestQuery(cur))
     IN IF ~Truthy(query)
        THEN /\ outcome' = [outcome EXCEPT ![cur] = MissingQuery(TestQuery(cur))]
             /\ pc' = AfterTest(outcome'[cur].kind)
        ELSE IF ChecksAliases(cur) /\ ~UsesAliases(query.text)
             THEN /\ outcome' = [outcome EXCEPT ![cur] =
                                   Ended("failed", "AssertionError", <<"Should use alias">>)]
                  /\ pc' = AfterTest("failed")
             ELSE /\ pc' = "execute"
                  /\ UNCHANGED outcome
  /\ UNCHANGED <<content, fileExists, result, loadPc, cur, conns, queries,
                 executed, loads, exercise, dbs, idle>>

\* cursor.execute(query): the engine runs the statement, which may change
\* rows, or it raises and the database is as it was
TestExecute ==
  /\ pc = "execute"
  /\ executed' = [executed EXCEPT ![cur] = @ + 1]
  /\ \/ /\ \E stmt \in Statements :
             /\ dbs' = [dbs EXCEPT ![conns[Conn].db].tables =
                          Execute(@, stmt, Target(exercise))]
             /\ conns' = [conns EXCEPT ![Conn].changed = (stmt # "select")]
        /\ pc' = "check"
        /\ UNCHANGED outcome
     \/ /\ conns' = [conns EXCEPT ![Conn].raised = TRUE]
        /\ outcome' = [outcome EXCEPT ![cur] = Raised("sqlite3.Error")]
        /\ pc' = AfterTest(outcome'[cur].kind)
        /\ UNCHANGED dbs
  /\ UNCHANGED <<content, fileExists, result, loadPc, cur, queries, loads,
                 exercise, idle>>

\* results = cursor.fetchall() and the asserts on the results
TestCheck ==
  /\ pc = "check"
  /\ \/ /\ outcome' = [outcome EXCEPT ![cur] = Ended("passed", "", <<>>)]
        /\ pc' = AfterTest("passed")
     \/ /\ outcome' = [outcome EXCEPT ![cur] =
                         Ended("failed", "AssertionError", <<"Expected rows">>)]
        /\ pc' = AfterTest("failed")
  /\ UNCHANGED <<content, fileExists, result, loadPc, cur, conns, queries,
                 executed, loads, exercise, dbs, idle>>

\* conn.close(), after the yield
DbClose ==
  /\ pc = "close"
  /\ conns' = [conns EXCEPT ![Conn].state = "closed"]
  /\ dbs' = [dbs EXCEPT ![conns[Conn].db] = Closed(@)]
  /\ pc' = "end"
  /\ UNCHANGED <<content, fileExists, result, loadPc, cur, queries, outcome,
                 executed, loads, exercise, idle>>

\* the runner goes on to the next test of the file; the value of a fixture
\* of function scope is dropped with the test that used it
NextTest ==
  /\ pc = "end"
  /\ cur' = cur + 1
  /\ pc' = IF cur + 1 \in Tests THEN "connect" ELSE "finished"
  /\ queries' = IF FixtureScope = "function" THEN NoValue ELSE queries
  /\ UNCHANGED <<content, fileExists, result, loadPc, conns, outcome, executed,
                 loads, exercise, dbs, idle>>

Next ==
  \/ DbConnect
  \/ DbSchema
  \/ DbSeed
  \/ DbCommitYield
  \/ QueriesFixture
  \/ TestLookup
  \/ TestExecute
  \/ TestCheck
  \/ DbClose
  \/ NextTest

Spec == Init /\ [][Next]_vars

\* the runner never stops before the last teardown
FairSpec == Spec /\ WF_vars(Next)

----------------------------------------------------------------------------
(* A parallel run: every worker process runs one test of the file, at its  *)
(* own pace.  The steps of a worker are those of the db fixture around the *)
(* body of its test; conns and dbs list the connections and the databases  *)
(* of all the processes, in the order of their creation.                   *)

NumWorkers == 2

Workers == 1..NumWorkers

\* the parts of the state the worker processes leave alone
parIdle == <<content, fileExists, result, loadPc, cur, pc, queries, outcome,
             executed, loads, exercise, env, session, call>>

InitPar ==
  /\ content = <<>>
  /\ fileExists = TRUE
  /\ result = NotLoaded
  /\ loadPc = "off"
  /\ cur = 0
  /\ pc = "off"
  /\ conns = <<>>
  /\ queries = NoValue
  /\ outcome = <<>>
  /\ executed = <<>>
  /\ loads = <<>>
  /\ exercise \in Exercises
  /\ dbs = <<>>
  /\ workers = [w \in Workers |-> [pc |-> "connect", conn |-> 0, stmt |-> "none"]]
  /\ env = NoEnv
  /\ session = NoSession
  /\ call = NoCall

\* the connection of worker w, once it has one
WConn(w) == workers[w].conn

\* conn = sqlite3.connect(':memory:')
WConnect(w) ==
  /\ workers[w].pc = "connect"
  /\ conns' = Append(conns, NewConn(connect(dbs, DatabaseName)))
  /\ dbs' = Opened(dbs, DatabaseName)
  /\ workers' = [workers EXCEPT ![w].pc = "schema", ![w].conn = Len(conns) + 1]
  /\ UNCHANGED parIdle

\* cursor.executescript(SCHEMA)
WSchema(w) ==
  /\ workers[w].pc = "schema"
  /\ conns' = [conns EXCEPT ![WConn(w)].schema = TRUE]
  /\ dbs' = [dbs EXCEPT ![conns[WConn(w)].db].tables = CreateTables(@, exercise)]
  /\ workers' = [workers EXCEPT ![w].pc = "seed"]
  /\ UNCHANGED parIdle

\* cursor.executescript(SAMPLE_DATA)
WSeed(w) ==
  /\ workers[w].pc = "seed"
  /\ conns' = [conns EXCEPT ![WConn(w)].seeded = TRUE]
  /\ dbs' = [dbs EXCEPT ![conns[WConn(w)].db].tables = InsertSeed(@, exercise)]
  /\ workers' = [workers EXCEPT ![w].pc = "commit"]
  /\ UNCHANGED parIdle

\* conn.commit(); yield conn
WCommitYield(w) ==
  /\ workers[w].pc = "commit"
  /\ conns' = [conns EXCEPT ![WConn(w)] = Yield(Commit(@), w)]
  /\ workers' = [workers EXCEPT ![w].pc = "body"]
  /\ UNCHANGED <<dbs, parIdle>>

\* the body of the test: cursor.execute(query) runs a statement or raises
WBody(w) ==
  /\ workers[w].pc = "body"
  /\ \/ \E stmt \in Statements :
          /\ dbs' = [dbs EXCEPT ![conns[WConn(w)].db].tables =
                       Execute(@, stmt, Target(exercise))]
          /\ conns' = [conns EXCEPT ![WConn(w)].changed = (stmt # "select")]
          /\ workers' = [workers EXCEPT ![w].pc = "close", ![w].stmt = stmt]
     \/ /\ conns' = [conns EXCEPT ![WConn(w)].raised = TRUE]
        /\ workers' = [workers EXCEPT ![w].pc = "close", ![w].stmt = "raised"]
        /\ UNCHANGED dbs
  /\ UNCHANGED parIdle

\* conn.close(), after the yield
WClose(w) ==
  /\ workers[w].pc = "close"
  /\ conns' = [conns EXCEPT ![WConn(w)].state = "closed"]
  /\ dbs' = [dbs EXCEPT ![conns[WConn(w)].db] = Closed(@)]
  /\ workers' = [workers EXCEPT ![w].pc = "done"]
  /\ UNCHANGED parIdle

NextPar ==
  \E w \in Workers :
    \/ WConnect(w)
    \/ WSchema(w)
    \/ WSeed(w)
    \/ WCommitYield(w)
    \/ WBody(w)
    \/ WClose(w)

SpecPar == InitPar /\ [][NextPar]_vars

----------------------------------------------------------------------------
(* A session over several exercise directories (conftest.py).  pytest      *)
(* first collects the test files: it puts the directory of a file at the   *)
(* front of sys.path and imports the file, whose first statements import   *)
(* the exercise module of the directory by name.  It then runs the tests,  *)
(* each one inside the autouse fixture change_test_dir.                    *)

MaxItems == 3

Dirs == {"01-variables", "02-functions"}

RootDir == "exercises"

\* the file name of the exercise module of each directory: as in the
\* repository, or the same name in every directory
OwnNames == [d \in Dirs |-> IF d = "01-variables" THEN "variables" ELSE "functions"]

SameNames == [d \in Dirs |-> "exercise"]

\* the orders in which the test files can be collected
FileOrders == {fs \in [1..Cardinality(Dirs) -> Dirs] : \A d \in Dirs : \E k \in DOMAIN fs : fs[k] = d}

\* the tests of a session, each named by the directory of its file
ItemLists == UNION {[1..k -> Dirs] : k \in 1..MaxItems}

\* what monkeypatch has saved: nothing, before its first chdir/syspath_prepend
NoSaved == [set |-> FALSE, cwd |-> "", path |-> <<>>]

\* sys.path.insert(0, d)
Prepend(path, d) == <<d>> \o path

\* the first directory of sys.path that holds a module of that name
FindModule(path, name, names) ==
  LET hits == {k \in 1..Len(path) : path[k] \in DOMAIN names /\ names[path[k]] = name}
  IN IF hits = {} THEN "" ELSE path[CHOOSE k \in hits : \A j \in hits : k <= j]

\* import name: the module sys.modules holds under that name, or else the
\* one found along sys.path, which sys.modules then holds
Import(e, name, names) ==
  IF name \in DOMAIN e.modules THEN e
  ELSE [e EXCEPT !.modules =
          [n \in DOMAIN e.modules \cup {name} |->
             IF n = name THEN FindModule(e.path, name, names) ELSE e.modules[n]]]

\* monkeypatch.chdir(test_dir)
chdir(e, d) == [e EXCEPT !.cwd = d]

\* monkeypatch.syspath_prepend(str(test_dir))
syspath_prepend(e, d) == [e EXCEPT !.path = Prepend(@, d)]

\* the undo of monkeypatch that leaves sys.path as the test had it
undo_CwdOnly(e, saved) == [e EXCEPT !.cwd = saved.cwd]

\* the undo of monkeypatch when the test is over: the working directory and
\* sys.path are set back to the values saved before the first change
undo(e, saved) == [e EXCEPT !.cwd = saved.cwd, !.path = saved.path]

\* the parts of the state the session over the directories leaves alone
dirIdle == <<content, fileExists, result, loadPc, cur, pc, conns, queries,
             outcome, executed, loads, exercise, dbs, workers, call>>

InitDirs ==
  /\ content = <<>>
  /\ fileExists = TRUE
  /\ result = NotLoaded
  /\ loadPc = "off"
  /\ cur = 0
  /\ pc = "off"
  /\ conns = <<>>
  /\ queries = NoValue
  /\ outcome = <<>>
  /\ executed = <<>>
  /\ loads = <<>>
  /\ exercise = "python-basics"
  /\ dbs = <<>>
  /\ workers = NoWorkers
  /\ \E d \in Dirs \cup {RootDir} :
       env = [cwd |-> d, path |-> <<RootDir, "site-packages">>, modules |-> <<>>]
  /\ \E fs \in FileOrders, its \in ItemLists, ns \in {OwnNames, SameNames} :
       session = [pc |-> "collect", files |-> fs, k |-> 1, items |-> its, i |-> 1,
                  names |-> ns, bound |-> [d \in Dirs |-> ""], saved |-> NoSaved,
                  before |-> NoSaved, ran |-> <<>>]
  /\ call = NoCall

\* the collection of one test file: its directory goes to the front of
\* sys.path unless it is there, and the file's "from <module> import ..."
\* binds the names the tests of the file will call
CollectFile ==
  /\ session.pc = "collect"
  /\ LET f == session.files[session.k]
         e1 == IF env.path[1] # f THEN syspath_prepend(env, f) ELSE env
         e2 == Import(e1, session.names[f], session.names)
     IN /\ env' = e2
        /\ session' = [session EXCEPT
                         !.bound[f] = e2.modules[session.names[f]],
                         !.k = @ + 1,
                         !.pc = IF session.k = Len(session.files) THEN "setup"
                                ELSE "collect"]
  /\ UNCHANGED dirIdle

\* change_test_dir, set up before the test: monkeypatch saves the working
\* directory and sys.path, then changes both
ChangeTestDir ==
  /\ session.pc = "setup"
  /\ LET test_dir == session.items[session.i]
     IN /\ env' = syspath_prepend(chdir(env, test_dir), test_dir)
        /\ session' = [session EXCEPT
                         !.saved = [set |-> TRUE, cwd |-> env.cwd, path |-> env.path],
                         !.before = [set |-> TRUE, cwd |-> env.cwd, path |-> env.path],
                         !.pc = "body"]
  /\ UNCHANGED dirIdle

\* the body of the test calls the functions its file imported
DirTestBody ==
  /\ session.pc = "body"
  /\ LET test_dir == session.items[session.i]
     IN session' = [session EXCEPT
                      !.ran = Append(@, [dir |-> test_dir,
                                         module |-> session.bound[test_dir]]),
                      !.pc = "teardown"]
  /\ UNCHANGED <<env, dirIdle>>

\* the teardown of monkeypatch, after the test
MonkeypatchUndo ==
  /\ session.pc = "teardown"
  /\ env' = undo(env, session.saved)
  /\ session' = [session EXCEPT !.saved = NoSaved, !.pc = "next"]
  /\ UNCHANGED dirIdle

\* the runner goes on to the next test of the session
NextItem ==
  /\ session.pc = "next"
  /\ session' = [session EXCEPT
                   !.i = @ + 1,
                   !.pc = IF session.i = Len(session.items) THEN "finished"
                          ELSE "setup"]
  /\ UNCHANGED <<env, dirIdle>>

NextDirs ==
  \/ CollectFile
  \/ ChangeTestDir
  \/ DirTestBody
  \/ MonkeypatchUndo
  \/ NextItem

SpecDirs == InitDirs /\ [][NextDirs]_vars

----------------------------------------------------------------------------
(* The reference solutions of the Python exercises (functions_solution.py, *)
(* data_structures_solution.py).  A str is the sequence of its characters. *)
(* A list is a sequence and a dict is the sequence of its (key, value)     *)
(* pairs in insertion order; both are objects: mem is the sequence of the  *)
(* objects that exist, a reference is a position of mem, and a function    *)
(* that takes or returns an object takes mem and references and returns    *)
(* mem as it leaves it and the reference it returns.                       *)

MaxInt == 30
MaxLen == 4
MaxKeys == 2

Ints == (-MaxInt)..MaxInt

Digits == <<"0", "1", "2", "3", "4", "5", "6", "7", "8", "9">>

RECURSIVE DigitsOf(_)
\* the decimal digits of a natural number, most significant first
DigitsOf(n) ==
  IF n < 10 THEN <<Digits[n + 1]>>
  ELSE Append(DigitsOf(n \div 10), Digits[(n % 10) + 1])

\* str(n) of an int
str(n) == IF n < 0 THEN <<"-">> \o DigitsOf(-n) ELSE DigitsOf(n)

Fizz == <<"F", "i", "z", "z">>
Buzz == <<"B", "u", "z", "z">>
FizzBuzz == Fizz \o Buzz

\* fizzbuzz that tests the single cases before the common one
fizzbuzz_SingleFirst(n) ==
  IF n % 3 = 0 THEN Fizz
  ELSE IF n % 5 = 0 THEN Buzz
       ELSE IF n % 3 = 0 /\ n % 5 = 0 THEN FizzBuzz
            ELSE str(n)

fizzbuzz(n) ==
  IF n % 3 = 0 /\ n % 5 = 0 THEN FizzBuzz
  ELSE IF n % 3 = 0 THEN Fizz
       ELSE IF n % 5 = 0 THEN Buzz
            ELSE str(n)

PyNone == [type |-> "NoneType"]
PyInt(n) == [type |-> "int", v |-> n]

Elems == {-2, -1, 3}

\* the lists of at most n elements
ListsOf(n) == UNION {[1..k -> Elems] : k \in 0..n}

RECURSIVE MaxLoop(_, _, _)
\* for num in numbers[1:]: if num > maximum: maximum = num
MaxLoop(numbers, i, maximum) ==
  IF i > Len(numbers) THEN maximum
  ELSE MaxLoop(numbers, i + 1,
               IF numbers[i] > maximum THEN numbers[i] ELSE maximum)

\* find_maximum that returns the first element, whatever follows it
find_maximum_First(numbers) ==
  IF Len(numbers) = 0 THEN PyNone ELSE PyInt(numbers[1])

find_maximum(numbers) ==
  IF Len(numbers) = 0 THEN PyNone
  ELSE PyInt(MaxLoop(numbers, 2, numbers[1]))

\* a new object: it is added to mem and the reference to it is returned
New(mem, v) == [mem |-> Append(mem, v), ret |-> Len(mem) + 1]

\* d.keys()
DictKeys(d) == {d[i][1] : i \in 1..Len(d)}

\* d[k] of a key of d
DictGet(d, k) == d[CHOOSE i \in 1..Len(d) : d[i][1] = k][2]

\* d[k] = v: a key of d keeps its place, a new key is added at the end
DictSet(d, k, v) ==
  IF k \in DictKeys(d)
  THEN [i \in 1..Len(d) |-> IF d[i][1] = k THEN <<k, v>> ELSE d[i]]
  ELSE Append(d, <<k, v>>)

\* d.get(k, default)
DictGetOr(d, k, default) == IF k \in DictKeys(d) THEN DictGet(d, k) ELSE default

\* d == e of two dicts: the same keys with the same values, in any order
DictEq(d, e) == {d[i] : i \in 1..Len(d)} = {e[i] : i \in 1..Len(e)}

RECURSIVE CountLoop(_, _, _)
\* for item in items: counts[item] = counts.get(item, 0) + 1
CountLoop(items, i, counts) ==
  IF i > Len(items) THEN counts
  ELSE CountLoop(items, i + 1,
                 DictSet(counts, items[i], DictGetOr(counts, items[i], 0) + 1))

count_occurrences(items) == CountLoop(items, 1, <<>>)

RECURSIVE Update(_, _)
\* d.update(e): the items of e are stored in d, in the order of e
Update(d, e) ==
  IF Len(e) = 0 THEN d
  ELSE Update(DictSet(d, e[1][1], e[1][2]), Tail(e))

\* merge_dictionaries as dict1.update(dict2); return dict1
merge_dictionaries_Update(mem, dict1, dict2) ==
  [mem |-> [mem EXCEPT ![dict1] = Update(mem[dict1], mem[dict2])],
   ret |-> dict1]

\* dict1 | dict2: a new dict, the items of dict1 updated with those of dict2
merge_dictionaries(mem, dict1, dict2) ==
  New(mem, Update(mem[dict1], mem[dict2]))

RECURSIVE DedupLoop(_, _, _, _)
\* for item in items: if item not in seen: seen.add(item); result.append(item)
DedupLoop(items, i, seen, uniq) ==
  IF i > Len(items) THEN uniq
  ELSE IF items[i] \notin seen
       THEN DedupLoop(items, i + 1, seen \cup {items[i]},
                      Append(uniq, items[i]))
       ELSE DedupLoop(items, i + 1, seen, uniq)

\* remove_duplicates that rewrites its argument and returns it
remove_duplicates_InPlace(mem, items) ==
  [mem |-> [mem EXCEPT ![items] = DedupLoop(mem[items], 1, {}, <<>>)],
   ret |-> items]

remove_duplicates(mem, items) ==
  New(mem, DedupLoop(mem[items], 1, {}, <<>>))

\* AddToGroup that puts the item at the front of its group
AddToGroup_Front(groups, key, item) ==
  LET g == IF key \notin DictKeys(groups) THEN DictSet(groups, key, <<>>)
           ELSE groups
  IN DictSet(g, key, <<item>> \o DictGet(g, key))

\* if key not in groups: groups[key] = []
\* groups[key].append(item)
AddToGroup(groups, key, item) ==
  LET g == IF key \notin DictKeys(groups) THEN DictSet(groups, key, <<>>)
           ELSE groups
  IN DictSet(g, key, Append(DictGet(g, key), item))

RECURSIVE GroupLoop(_, _, _, _)
\* for item in items: key = key_func(item); ...
GroupLoop(items, key_func, i, groups) ==
  IF i > Len(items) THEN groups
  ELSE GroupLoop(items, key_func, i + 1,
                 AddToGroup(groups, key_func[items[i]], items[i]))

group_by_key(mem, items, key_func) ==
  New(mem, GroupLoop(mem[items], key_func, 1, <<>>))

RECURSIVE InvertLoop(_, _, _)
\* {v: k for k, v in d.items()}: the items of d in order, a value that
\* comes again replaces the key stored for it
InvertLoop(d, i, inv) ==
  IF i > Len(d) THEN inv
  ELSE InvertLoop(d, i + 1, DictSet(inv, d[i][2], d[i][1]))

\* invert_dictionary that rewrites its argument and returns it
invert_dictionary_InPlace(mem, d) ==
  [mem |-> [mem EXCEPT ![d] = InvertLoop(mem[d], 1, <<>>)], ret |-> d]

invert_dictionary(mem, d) == New(mem, InvertLoop(mem[d], 1, <<>>))

\* items.index(x): the first position of x (positions count from 0)
index(items, x) ==
  (CHOOSE i \in 1..Len(items) :
     items[i] = x /\ \A j \in 1..(i - 1) : items[j] # x) - 1

\* the order of tuples of two ints
TupleLess(a, b) == a[1] < b[1] \/ (a[1] = b[1] /\ a[2] < b[2])

\* sorted(items, key=...): a new list, ascending by key, and stable: items
\* with equal keys keep their order; keys[i] is the key of items[i]
sorted(items, keys) ==
  LET n == Len(items)
      Before(i, j) ==
        TupleLess(keys[i], keys[j]) \/ (~TupleLess(keys[j], keys[i]) /\ i < j)
      rank(i) == Cardinality({j \in 1..n : Before(j, i)}) + 1
  IN [r \in 1..n |-> items[CHOOSE i \in 1..n : rank(i) = r]]

\* SortKey without the position of the first occurrence
SortKey_CountOnly(items, counts, x) == <<-DictGet(counts, x), 0>>

\* lambda x: (-counts[x], items.index(x))
SortKey(items, counts, x) == <<-DictGet(counts, x), index(items, x)>>

frequency_sort(mem, items) ==
  LET counts == count_occurrences(mem[items])
  IN New(mem, sorted(mem[items],
                     [i \in 1..Len(mem[items]) |->
                        SortKey(mem[items], counts, mem[items][i])]))

\* the text of a path, in pieces: the two directory names the hook looks
\* for, the separator, and any other text
PathTokens == {"python-basics", "sql-fundamentals", "/", "tests"}

Paths ==
  {<<>>} \cup {<<a>> : a \in PathTokens} \cup (PathTokens \X PathTokens)

\* "name" in str(item.fspath)
In(name, fspath) == \E i \in 1..Len(fspath) : fspath[i] = name

\* a collected test: its path and the markers added to it
Item(fspath) == [fspath |-> fspath, own_markers |-> <<>>]

\* item.add_marker(marker)
add_marker(item, marker) ==
  [item EXCEPT !.own_markers = Append(@, marker)]

\* MarkItem with two separate ifs in place of if / elif
MarkItem_BothIfs(item) ==
  LET first == IF In("python-basics", item.fspath)
               THEN add_marker(item, "python") ELSE item
  IN IF In("sql-fundamentals", item.fspath)
     THEN add_marker(first, "sql") ELSE first

\* the body of the loop of pytest_collection_modifyitems
MarkItem(item) ==
  IF In("python-basics", item.fspath) THEN add_marker(item, "python")
  ELSE IF In("sql-fundamentals", item.fspath) THEN add_marker(item, "sql")
       ELSE item

\* the hook marks the items of the list where they are and returns None
pytest_collection_modifyitems(mem, items) ==
  [mem |-> [mem EXCEPT ![items] = [i \in 1..Len(@) |-> MarkItem(@[i])]],
   ret |-> PyNone]

MaxCollected == 2

DictKeySet == {"a", "b", "c"}
DictValues == {1, 2}

\* whether no two items of a sequence of pairs have the same key
DistinctKeys(d) == \A i, j \in 1..Len(d) : d[i][1] = d[j][1] => i = j

\* the dicts of at most n items
DictsOf(n) ==
  {d \in UNION {[1..k -> DictKeySet \X DictValues] : k \in 0..n} :
     DistinctKeys(d)}

KeyFuncs == [Elems -> {"low", "high"}]

\* the lists of at most n collected tests
ItemListsOf(n) == UNION {[1..k -> {Item(p) : p \in Paths}] : k \in 0..n}

\* a call that is about to be made: mem holds the argument objects
Calling(fn, args, mem) ==
  [pc |-> "start", fn |-> fn, args |-> args, before |-> mem, mem |-> mem,
   ret |-> PyNone, again |-> PyNone]

funIdle == <<content, fileExists, result, loadPc, cur, pc, conns, queries,
             outcome, executed, loads, exercise, dbs, workers, env, session>>

InitFun ==
  /\ content = <<>>
  /\ fileExists = TRUE
  /\ result = NotLoaded
  /\ loadPc = "off"
  /\ cur = 0
  /\ pc = "off"
  /\ conns = <<>>
  /\ queries = NoValue
  /\ outcome = <<>>
  /\ executed = <<>>
  /\ loads = <<>>
  /\ exercise = "python-basics"
  /\ dbs = <<>>
  /\ workers = NoWorkers
  /\ env = NoEnv
  /\ session = NoSession
  /\ \/ \E n \in Ints : call = Calling("fizzbuzz", <<n>>, <<>>)
     \/ \E numbers \in ListsOf(MaxLen) :
          call = Calling("find_maximum", <<numbers>>, <<>>)
     \/ \E items \in ListsOf(MaxLen) :
          \/ call = Calling("remove_duplicates", <<1>>, <<items>>)
          \/ call = Calling("frequency_sort", <<1>>, <<items>>)
          \/ \E key_func \in KeyFuncs :
               call = Calling("group_by_key", <<1, key_func>>, <<items>>)
     \/ \E dict1, dict2 \in DictsOf(MaxKeys) :
          \/ call = Calling("merge_dictionaries", <<1, 2>>, <<dict1, dict2>>)
          \/ /\ dict1 = dict2
             /\ call = Calling("merge_dictionaries", <<1, 1>>, <<dict1>>)
     \/ \E d \in DictsOf(MaxKeys) :
          call = Calling("invert_dictionary", <<1>>, <<d>>)
     \/ \E items \in ItemListsOf(MaxCollected) :
          call = Calling("pytest_collection_modifyitems", <<1>>, <<items>>)

\* the value a call returned and the objects as the call left them
Returned(r) == [call EXCEPT !.pc = "done", !.mem = r.mem, !.ret = r.ret]

CallFizzbuzz ==
  /\ call.pc = "start"
  /\ call.fn = "fizzbuzz"
  /\ call' = [call EXCEPT !.pc = "done", !.ret = fizzbuzz(call.args[1])]
  /\ UNCHANGED funIdle

CallFindMaximum ==
  /\ call.pc = "start"
  /\ call.fn = "find_maximum"
  /\ call' = [call EXCEPT !.pc = "done", !.ret = find_maximum(call.args[1])]
  /\ UNCHANGED funIdle

CallRemoveDuplicates ==
  /\ call.pc = "start"
  /\ call.fn = "remove_duplicates"
  /\ call' = Returned(remove_duplicates(call.mem, call.args[1]))
  /\ UNCHANGED funIdle

\* remove_duplicates(remove_duplicates(items)): a second call, on the list
\* the first one returned
CallRemoveDuplicatesAgain ==
  /\ call.pc = "done"
  /\ call.fn = "remove_duplicates"
  /\ LET r == remove_duplicates(call.mem, call.ret)
     IN call' = [call EXCEPT !.pc = "again", !.mem = r.mem, !.again = r.ret]
  /\ UNCHANGED funIdle

CallMergeDictionaries ==
  /\ call.pc = "start"
  /\ call.fn = "merge_dictionaries"
  /\ call' = Returned(merge_dictionaries(call.mem, call.args[1], call.args[2]))
  /\ UNCHANGED funIdle

CallGroupByKey ==
  /\ call.pc = "start"
  /\ call.fn = "group_by_key"
  /\ call' = Returned(group_by_key(call.mem, call.args[1], call.args[2]))
  /\ UNCHANGED funIdle

CallInvertDictionary ==
  /\ call.pc = "start"
  /\ call.fn = "invert_dictionary"
  /\ call' = Returned(invert_dictionary(call.mem, call.args[1]))
  /\ UNCHANGED funIdle

\* invert_dictionary(invert_dictionary(d)): a second call, on the dict the
\* first one returned
CallInvertDictionaryAgain ==
  /\ call.pc = "done"
  /\ call.fn = "invert_dictionary"
  /\ LET r == invert_dictionary(call.mem, call.ret)
     IN call' = [call EXCEPT !.pc = "again", !.mem = r.mem, !.again = r.ret]
  /\ UNCHANGED funIdle

CallFrequencySort ==
  /\ call.pc = "start"
  /\ call.fn = "frequency_sort"
  /\ call' = Returned(frequency_sort(call.mem, call.args[1]))
  /\ UNCHANGED funIdle

CallModifyItems ==
  /\ call.pc = "start"
  /\ call.fn = "pytest_collection_modifyitems"
  /\ call' = Returned(pytest_collection_modifyitems(call.mem, call.args[1]))
  /\ UNCHANGED funIdle

NextFun ==
  \/ CallFizzbuzz
  \/ CallFindMaximum
  \/ CallRemoveDuplicates
  \/ CallRemoveDuplicatesAgain
  \/ CallMergeDictionaries
  \/ CallGroupByKey
  \/ CallInvertDictionary
  \/ CallInvertDictionaryAgain
  \/ CallFrequencySort
  \/ CallModifyItems

SpecFun == InitFun /\ [][NextFun]_vars

----------------------------------------------------------------------------
(* The file format and the extraction as the specification words them *)

IsBlankLine(l) == \A k \in 1..Len(l) : IsSpace(l[k])

\* a line whose first non-whitespace characters are "--"
IsCommentLine(l) ==
  \E k \in 1..Len(l) : /\ l[k] \in {DASH2, MARK}
                       /\ \A j \in 1..(k - 1) : IsSpace(l[j])

\* a line whose first characters are "--"
BeginsWithPrefix(l) == Len(l) > 0 /\ l[1] \in {DASH2, MARK}

KeptBySpec(l) == ~IsBlankLine(l) /\ ~IsCommentLine(l)

KeptLiterally(l) == ~IsBlankLine(l) /\ ~BeginsWithPrefix(l)

\* blank and comment lines discarded, the rest joined with newlines, trimmed
CleanText(body) == Strip(JoinLines(SelectSeq(SplitLines(body), KeptBySpec)))

\* the same with "begins with the comment prefix" read to the letter
CleanTextLiteral(body) ==
  Strip(JoinLines(SelectSeq(SplitLines(body), KeptLiterally)))

IsPlaceholder(text) == text = <<>> \/ text = <<PASS>>

\* a line of the form "-- Query: <name>" (trailing whitespace allowed)
IsMarkerLine(l) ==
  /\ Len(l) >= 3
  /\ l[1] = MARK
  /\ l[2] = SP
  /\ IsWord(l[3])
  /\ \A k \in 4..Len(l) :
       \/ IsWord(l[k]) /\ \A j \in 3..k : IsWord(l[j])
       \/ IsSpace(l[k]) /\ \A j \in k..Len(l) : IsSpace(l[j])

MarkerName(l) ==
  LET ws == {k \in 3..Len(l) : \A j \in 3..k : IsWord(l[j])}
  IN SubSeq(l, 3, 2 + Cardinality(ws))

FileLines == SplitLines(content)

MarkerLines == {i \in 1..Len(FileLines) : IsMarkerLine(FileLines[i])}

\* the line after the block that the marker line i starts
BlockEnd(i) ==
  LET later == {j \in MarkerLines : j > i}
  IN IF later = {} THEN Len(FileLines) + 1
     ELSE CHOOSE j \in later : \A k \in later : j <= k

BlockLines(i) == SubSeq(FileLines, i + 1, BlockEnd(i) - 1)

BlockText(i) == Strip(JoinLines(SelectSeq(BlockLines(i), KeptBySpec)))

\* the blocks load_queries finds, in file order
Blocks == FindAll(content)

BlocksNamed(n) == {i \in 1..Len(Blocks) : Blocks[i].name = n}

Loaded == loadPc = "done"

----------------------------------------------------------------------------
(* C1: a block found in the file supplies an entry of the mapping exactly   *)
(* when its text, blank and comment lines removed, is neither empty nor     *)
(* 'pass'; so no value of the mapping is empty or 'pass'.                   *)
C1_PlaceholderOmitted ==
  Loaded =>
    /\ \A n \in DOMAIN result : ~IsPlaceholder(result[n])
    /\ \A i \in 1..Len(Blocks) :
         ~IsPlaceholder(CleanText(Blocks[i].body)) => Blocks[i].name \in DOMAIN result
    /\ \A n \in DOMAIN result :
         \E i \in BlocksNamed(n) : /\ ~IsPlaceholder(CleanText(Blocks[i].body))
                                   /\ result[n] = CleanText(Blocks[i].body)

C1_Witness ==
  /\ Loaded
  /\ \E i, j \in 1..Len(Blocks) :
       /\ CleanText(Blocks[i].body) = <<PASS>>
       /\ Blocks[i].name \notin DOMAIN result
       /\ Blocks[j].name \in DOMAIN result

----------------------------------------------------------------------------
(* C2 *)

ExampleText ==
  <<MARK, SP, "A", NL, "SELECT", SP, "1", SEMI, NL,
    MARK, SP, "B", NL, DASH2, SP, "comment", NL, "SELECT", SP, "2", SEMI>>

ExampleMap ==
  [n \in {<<"A">>, <<"B">>} |->
     IF n = <<"A">> THEN <<"SELECT", SP, "1", SEMI>>
     ELSE <<"SELECT", SP, "2", SEMI>>]

(* C2 as stated: every value of the mapping is its block's body with the    *)
(* blank lines and the lines that begin with '--' discarded, the rest       *)
(* joined with newlines and trimmed; the example file yields                *)
(* {A: 'SELECT 1;', B: 'SELECT 2;'}.                                        *)
C2_AsStated ==
  Loaded =>
    /\ \A n \in DOMAIN result :
         \E i \in BlocksNamed(n) : result[n] = CleanTextLiteral(Blocks[i].body)
    /\ content = ExampleText => result = ExampleMap

(* C2 amended: the discarded comment lines are those whose first            *)
(* non-whitespace characters are '--' (indented comments included).         *)
C2_CleanedValue ==
  Loaded =>
    /\ \A n \in DOMAIN result :
         \E i \in BlocksNamed(n) : result[n] = CleanText(Blocks[i].body)
    /\ content = ExampleText => result = ExampleMap

C2_Witness == Loaded /\ content = ExampleText /\ result = ExampleMap

----------------------------------------------------------------------------
(* C3: every entry of the mapping comes from a marker that begins a line:   *)
(* some line of the file begins with "-- Query: " and the entry's name.     *)
C3_MarkerBeginsLine ==
  Loaded =>
    \A n \in DOMAIN result :
      \E i \in 1..Len(FileLines) :
        /\ Len(FileLines[i]) >= 2 + Len(n)
        /\ SubSeq(FileLines[i], 1, 2 + Len(n)) = <<MARK, SP>> \o n

----------------------------------------------------------------------------
(* C4: the block of a marker line runs to the next marker line or to the    *)
(* end of the file: when its name is used once and its text is not the      *)
(* placeholder, every non-blank, non-comment line of that range is a line   *)
(* of the mapping's value for the name.                                     *)
C4_BodyRunsToNextMarker ==
  Loaded =>
    \A i \in MarkerLines :
      LET n == MarkerName(FileLines[i])
      IN (/\ \A j \in MarkerLines : MarkerName(FileLines[j]) = n => j = i
          /\ ~IsPlaceholder(BlockText(i)))
         => /\ n \in DOMAIN result
            /\ \A k \in 1..Len(BlockLines(i)) :
                 KeptBySpec(BlockLines(i)[k]) =>
                   \E r \in 1..Len(SplitLines(result[n])) :
                     Strip(SplitLines(result[n])[r]) = Strip(BlockLines(i)[k])

----------------------------------------------------------------------------
(* C5 as stated: a name with two or more blocks gets the text of the last  *)
(* block of that name (no entry when that text is empty or 'pass'); here    *)
(* for the files whose markers all begin a line.                            *)
C5_LastBlockWins ==
  Loaded =>
    \A i \in 1..Len(Blocks) :
      LET same == BlocksNamed(Blocks[i].name)
          last == CHOOSE j \in same : \A k \in same : k <= j
      IN (/\ Cardinality(same) >= 2
          /\ \A b \in 1..Len(Blocks) :
               Blocks[b].start = 1 \/ content[Blocks[b].start - 1] = NL)
         =>
           IF IsPlaceholder(CleanText(Blocks[last].body))
           THEN Blocks[i].name \notin DOMAIN result
           ELSE /\ Blocks[i].name \in DOMAIN result
                /\ result[Blocks[i].name] = CleanText(Blocks[last].body)

(* C5 amended: a name with two or more blocks has the text of the last of   *)
(* its blocks whose text is neither empty nor 'pass', and no entry when     *)
(* every one of its blocks is empty or 'pass'.                              *)
C5_LastStoredBlockWins ==
  Loaded =>
    \A i \in 1..Len(Blocks) :
      LET same == BlocksNamed(Blocks[i].name)
          stored == {j \in same : ~IsPlaceholder(CleanText(Blocks[j].body))}
          last == CHOOSE j \in stored : \A k \in stored : k <= j
      IN Cardinality(same) >= 2 =>
           IF stored = {} THEN Blocks[i].name \notin DOMAIN result
           ELSE /\ Blocks[i].name \in DOMAIN result
                /\ result[Blocks[i].name] = CleanText(Blocks[last].body)

C5_Witness ==
  /\ Loaded
  /\ \E i, j \in 1..Len(Blocks) :
       /\ i < j
       /\ Blocks[i].name = Blocks[j].name
       /\ ~IsPlaceholder(CleanText(Blocks[i].body))
       /\ ~IsPlaceholder(CleanText(Blocks[j].body))
       /\ CleanText(Blocks[i].body) # CleanText(Blocks[j].body)
       /\ result[Blocks[j].name] = CleanText(Blocks[j].body)

----------------------------------------------------------------------------
(* C6: a file with no marker line yields the empty mapping.                 *)
C6_NoMarkerLineNoEntry ==
  (Loaded /\ MarkerLines = {}) => result = EmptyMap

----------------------------------------------------------------------------
(* C8: every line of every value of the mapping is non-blank and is not a   *)
(* comment-only line.                                                       *)
C8_NoBlankNoCommentLine ==
  Loaded =>
    \A n \in DOMAIN result :
      \A k \in 1..Len(SplitLines(result[n])) :
        /\ ~IsBlankLine(SplitLines(result[n])[k])
        /\ ~IsCommentLine(SplitLines(result[n])[k])

C8_Witness ==
  /\ Loaded
  /\ \E i \in 1..Len(Blocks) :
       /\ Blocks[i].name \in DOMAIN result
       /\ \E k, b, c \in 1..Len(SplitLines(Blocks[i].body)) :
            /\ IsBlankLine(SplitLines(Blocks[i].body)[b])
            /\ IsCommentLine(SplitLines(Blocks[i].body)[c])
            /\ ~BeginsWithPrefix(SplitLines(Blocks[i].body)[c])
            /\ KeptBySpec(SplitLines(Blocks[i].body)[k])

----------------------------------------------------------------------------
----------------------------------------------------------------------------
(* C9 *)

\* the body of test t is past its lookup of the query
LookedUp(t) ==
  \/ t < cur
  \/ t = cur /\ pc \in {"execute", "check", "close", "end"}

\* the mapping the queries fixture gave test t lacks the query of the test
QueryAbsent(t) ==
  /\ fileExists
  /\ Len(loads) >= t
  /\ LookedUp(t)
  /\ TestQuery(t) \notin DOMAIN loads[t]

Names(msg, name) ==
  \E i \in 1..Len(msg) :
    i + Len(name) - 1 <= Len(msg) /\ SubSeq(msg, i, i + Len(name) - 1) = name

(* C9: a test whose query is absent from the mapping fails with an          *)
(* AssertionError whose message names the query, and its body executes no   *)
(* statement on the connection.                                             *)
C9_AbsentQueryFailsByAssertion ==
  \A t \in Tests :
    QueryAbsent(t) =>
      /\ outcome[t] # NotRun
      /\ outcome[t].kind = "failed"
      /\ outcome[t].exc = "AssertionError"
      /\ Names(outcome[t].msg, TestQuery(t))
      /\ executed[t] = 0

C9_Witness ==
  \E t \in Tests :
    /\ QueryAbsent(t)
    /\ FindAll(content) # <<>>
    /\ outcome[t] # NotRun
    /\ outcome[t].exc = "AssertionError"
    /\ conns[t].state = "closed"

----------------------------------------------------------------------------
(* C10: every connection the db fixture hands to a test is closed in the    *)
(* end, however the test ends.                                              *)
C10_HandedConnectionClosed ==
  \A t \in Tests :
    (Len(conns) >= t /\ conns[t].handed /\ conns[t].state = "open")
      ~> (Len(conns) >= t /\ conns[t].state = "closed")

C10_Witness ==
  \E t, u, v \in Tests :
    /\ Len(conns) >= t /\ Len(conns) >= u
    /\ outcome[t] # NotRun /\ outcome[u] # NotRun
    /\ outcome[t].exc = "sqlite3.Error"
    /\ outcome[u].exc = "AssertionError"
    /\ conns[t].handed /\ conns[t].state = "closed"
    /\ conns[u].handed /\ conns[u].state = "closed"

----------------------------------------------------------------------------
(* The database fixture as the specification words it *)

\* the fixed schema with the fixed seed rows of an exercise
SeedDb(ex) == [t \in SCHEMA(ex) |-> {Row(i, "seed") : i \in SAMPLE_DATA(ex)[t]}]

\* test t has received its connection and has executed nothing on it yet
Received(t) ==
  /\ Len(conns) >= t
  /\ conns[t].handed
  /\ conns[t].state = "open"
  /\ executed[t] = 0

\* the db fixture of test t has started
Started(t) == t < cur \/ (t = cur /\ pc # "connect")

\* the queries fixture of test t has been set up, or has raised
PastQueries(t) ==
  t < cur \/ (t = cur /\ pc \in {"lookup", "execute", "check", "close", "end"})

OpenConns == {i \in 1..Len(conns) : conns[i].state = "open"}

----------------------------------------------------------------------------
(* C11: when a test receives its connection the database holds the schema   *)
(* and the seed rows of the exercise and nothing else, whatever the earlier *)
(* tests inserted, updated or deleted.                                      *)
C11_StartsFromSeed ==
  \A t \in Tests : Received(t) => dbs[conns[t].db].tables = SeedDb(exercise)

C11_Witness ==
  \E t, u \in Tests :
    /\ t < u
    /\ Received(u)
    /\ conns[t].changed
    /\ dbs[conns[u].db].tables = SeedDb(exercise)

----------------------------------------------------------------------------
(* C12: at most one connection is open at any time, and when a connection   *)
(* is created every connection created before it has been closed.           *)
C12_LifetimesDoNotOverlap ==
  /\ Cardinality(OpenConns) <= 1
  /\ \A i, j \in 1..Len(conns) : i < j => conns[i].state = "closed"

C12_Witness ==
  /\ Len(conns) = 2
  /\ conns[1].state = "closed"
  /\ conns[2].state = "open"
  /\ outcome[1].kind = "failed"

----------------------------------------------------------------------------
(* C13: the db fixture connects, applies the schema, inserts the seed rows, *)
(* commits, hands the connection to the test and closes it, in that order;  *)
(* the body of a test runs on a committed connection only; a connection is  *)
(* handed to the one test that requested it and to no other.                *)
C13_FixtureOrder ==
  /\ \A i \in 1..Len(conns) :
       /\ conns[i].seeded => conns[i].schema
       /\ conns[i].committed => conns[i].seeded
       /\ conns[i].handed => conns[i].committed
       /\ conns[i].state = "closed" => conns[i].handed
       /\ (conns[i].schema /\ ~conns[i].seeded) =>
            \A tb \in SCHEMA(exercise) : SelectAll(dbs[conns[i].db], tb) = {}
       /\ conns[i].owners = IF conns[i].handed THEN {i} ELSE {}
  /\ pc \in {"queries", "lookup", "execute", "check"} =>
       /\ Len(conns) = cur
       /\ conns[cur].committed
       /\ conns[cur].handed
       /\ conns[cur].state = "open"
  /\ \A t \in Tests : executed[t] > 0 => conns[t].committed

C13_Witness ==
  /\ pc = "finished"
  /\ Len(conns) = NumTests
  /\ \A i \in 1..Len(conns) :
       /\ conns[i].committed
       /\ conns[i].owners = {i}
       /\ conns[i].state = "closed"
  /\ \E t \in Tests : executed[t] > 0

----------------------------------------------------------------------------
(* C14: through a connection the db fixture has just handed out, selecting  *)
(* all the rows of a table returns 8 products, 8 employees, and 4           *)
(* customers, 4 orders and 6 order_items, on every invocation.              *)
C14_SeedRowCounts ==
  \A t \in Tests :
    Received(t) =>
      LET db == dbs[conns[t].db]
      IN /\ exercise = "01-select-basics" =>
              Cardinality(SelectAll(db, "products")) = 8
         /\ exercise = "02-filtering" =>
              Cardinality(SelectAll(db, "employees")) = 8
         /\ exercise = "03-joins" =>
              /\ Cardinality(SelectAll(db, "customers")) = 4
              /\ Cardinality(SelectAll(db, "orders")) = 4
              /\ Cardinality(SelectAll(db, "order_items")) = 6

C14_Witness ==
  /\ Received(2)
  /\ conns[1].changed
  /\ exercise = "03-joins"
  /\ Cardinality(SelectAll(dbs[conns[2].db], "order_items")) = 6

----------------------------------------------------------------------------
\* every test that has started has a database of its own
NewDatabasePerTest ==
  /\ Len(conns) = Cardinality({t \in Tests : Started(t)})
  /\ Len(dbs) = Len(conns)
  /\ \A i \in 1..Len(conns) : conns[i].db = i

(* C15 as stated: in one run load_queries is invoked, and the query file    *)
(* read, at most once, the mapping being reused by the later tests of the   *)
(* file, while every test has a database of its own.                        *)
C15_LoadedOncePerFile ==
  /\ Len(loads) <= 1
  /\ NewDatabasePerTest

(* C15 amended: load_queries is invoked, and the query file read, once for  *)
(* every test (no mapping is kept from one test to the next), and every     *)
(* test has a database of its own.                                          *)
C15_LoadedOncePerTest ==
  /\ Len(loads) = IF fileExists THEN Cardinality({t \in Tests : PastQueries(t)})
                  ELSE 0
  /\ (pc = "queries" /\ cur \in Tests) => ~queries.set
  /\ NewDatabasePerTest

C15_Witness ==
  /\ pc = "finished"
  /\ Len(loads) = NumTests
  /\ loads[1] # EmptyMap
  /\ Len(dbs) = NumTests

----------------------------------------------------------------------------
(* C16: when the engine raises while a test executes its query, that test   *)
(* fails with the engine's error after a single execution (no retry), and   *)
(* every later test still runs, on a database of its own that holds the     *)
(* seed content.                                                            *)
C16_EngineErrorFailsThatTestOnly ==
  \A t \in Tests :
    (Len(conns) >= t /\ conns[t].raised) =>
      /\ executed[t] = 1
      /\ outcome[t] = Ended("failed", "sqlite3.Error", <<>>)
      /\ \A u \in Tests :
           (u > t /\ Received(u)) =>
             /\ conns[u].db # conns[t].db
             /\ dbs[conns[u].db].tables = SeedDb(exercise)
      /\ pc = "finished" =>
           /\ Len(conns) = NumTests
           /\ \A u \in Tests : outcome[u] # NotRun /\ conns[u].state = "closed"

C16_Witness ==
  /\ pc = "finished"
  /\ conns[1].raised
  /\ outcome[1].exc = "sqlite3.Error"
  /\ outcome[2].kind = "passed"
  /\ executed[2] = 1

----------------------------------------------------------------------------
(* C17: when the query file does not exist, load_queries raises             *)
(* FileNotFoundError, nothing catches it, and every test of the file ends   *)
(* with that error without executing any query.                             *)
C17_MissingFileFailsEveryTest ==
  ~fileExists =>
    /\ loads = <<>>
    /\ \A t \in Tests :
         /\ executed[t] = 0
         /\ PastQueries(t) =>
              /\ outcome[t].kind \in {"failed", "error"}
              /\ outcome[t].exc = "FileNotFoundError"

C17_Witness ==
  /\ ~fileExists
  /\ pc = "finished"
  /\ \A t \in Tests : outcome[t].exc = "FileNotFoundError"
  /\ \A i \in 1..Len(conns) : conns[i].state = "closed"

----------------------------------------------------------------------------
\* worker w holds the connection the fixture handed to its test
Holds(w) ==
  /\ WConn(w) # 0
  /\ conns[WConn(w)].handed
  /\ conns[WConn(w)].state = "open"

\* what a test sees through its connection when no other test reaches its
\* database: the seed content, changed by its own statement if it ran one
OwnContent(w) ==
  IF workers[w].stmt \in Statements
  THEN Execute(SeedDb(exercise), workers[w].stmt, Target(exercise))
  ELSE SeedDb(exercise)

(* C18: in a parallel run every test has a database of its own: through its *)
(* connection a test sees the seed content when it starts and, afterwards,  *)
(* only what its own statement changed, however the steps of the other      *)
(* test interleave with its own.                                            *)
C18_ParallelTestsIsolated ==
  \A w \in Workers :
    Holds(w) =>
      /\ dbs[conns[WConn(w)].db].tables = OwnContent(w)
      /\ \A v \in Workers \ {w} :
           WConn(v) # 0 => conns[WConn(v)].db # conns[WConn(w)].db

C18_Witness ==
  \E w, v \in Workers :
    /\ w # v
    /\ Holds(w) /\ Holds(v)
    /\ workers[w].stmt = "insert"
    /\ workers[v].pc = "body"
    /\ dbs[conns[WConn(v)].db].tables = SeedDb(exercise)
    /\ dbs[conns[WConn(w)].db].tables # SeedDb(exercise)

----------------------------------------------------------------------------
\* the directory of the test the session is at
TestDir == session.items[session.i]

(* C19: while the body of a test runs, the working directory is the         *)
(* directory of its test file and that directory is the first entry of      *)
(* sys.path; when the test is over, the working directory and sys.path are  *)
(* what they were before the test.                                          *)
C19_DirSwitchedAndRestored ==
  /\ session.pc \in {"body", "teardown"} =>
       /\ env.cwd = TestDir
       /\ env.path[1] = TestDir
  /\ session.pc \in {"next", "finished"} =>
       /\ env.cwd = session.before.cwd
       /\ env.path = session.before.path

C19_Witness ==
  /\ session.pc = "next"
  /\ session.i = 2
  /\ session.items[1] # session.items[2]
  /\ env.cwd # TestDir
  /\ env.path[1] # TestDir
  /\ env.cwd = session.before.cwd
  /\ Len(session.ran) = 2

----------------------------------------------------------------------------
(* C20: the tests of every directory run against the exercise module of     *)
(* their own directory, also when the modules of two directories have the   *)
(* same file name, whatever the order of collection and of the tests.       *)
C20_RunsAgainstOwnModule ==
  \A j \in 1..Len(session.ran) : session.ran[j].module = session.ran[j].dir

----------------------------------------------------------------------------
(* The Python exercises as the specification words them *)

\* the call of fn has returned
Done(fn) == call.pc \in {"done", "again"} /\ call.fn = fn

\* n is a multiple of k
Divisible(n, k) == \E q \in (-MaxInt)..MaxInt : n = q * k

\* the number a digit stands for
DigitValue(c) == CHOOSE v \in 0..9 : Digits[v + 1] = c

RECURSIVE DecimalValue(_)
\* the number a sequence of digits stands for
DecimalValue(ds) ==
  IF Len(ds) = 0 THEN 0
  ELSE 10 * DecimalValue(SubSeq(ds, 1, Len(ds) - 1)) + DigitValue(ds[Len(ds)])

\* s is the decimal string of n: digits that stand for the size of n, with
\* no leading zero, after a "-" exactly when n is negative
IsDecimalOf(s, n) ==
  LET neg == Len(s) > 0 /\ s[1] = "-"
      ds == IF neg THEN Tail(s) ELSE s
  IN /\ Len(ds) > 0
     /\ \A i \in 1..Len(ds) : \E v \in 0..9 : Digits[v + 1] = ds[i]
     /\ Len(ds) > 1 => ds[1] # "0"
     /\ neg <=> n < 0
     /\ DecimalValue(ds) = IF n < 0 THEN -n ELSE n

(* C21: fizzbuzz(n) is 'FizzBuzz' when n is divisible by 3 and by 5, 'Fizz'  *)
(* when by 3 only, 'Buzz' when by 5 only, and the decimal string of n        *)
(* otherwise; a number divisible by both never gets 'Fizz' or 'Buzz'.        *)
C21_Fizzbuzz ==
  Done("fizzbuzz") =>
    LET n == call.args[1]
        by3 == Divisible(n, 3)
        by5 == Divisible(n, 5)
    IN /\ by3 /\ by5 => call.ret = FizzBuzz /\ call.ret \notin {Fizz, Buzz}
       /\ by3 /\ ~by5 => call.ret = Fizz
       /\ by5 /\ ~by3 => call.ret = Buzz
       /\ ~by3 /\ ~by5 => IsDecimalOf(call.ret, n)

C21_Witness ==
  /\ Done("fizzbuzz")
  /\ call.args[1] < 0
  /\ Divisible(call.args[1], 3) /\ Divisible(call.args[1], 5)
  /\ call.ret = FizzBuzz

\* the list the call was given, before and after, and the list it returned
Arg1Before == call.before[call.args[1]]
Arg1After == call.mem[call.args[1]]
Ret == call.mem[call.ret]

\* the elements of a list
Elements(l) == {l[i] : i \in 1..Len(l)}

\* the number of occurrences of x in a list
Occurrences(l, x) == Cardinality({i \in 1..Len(l) : l[i] = x})

\* the position of the first occurrence of x in a list
FirstAt(l, x) == CHOOSE i \in 1..Len(l) : l[i] = x /\ \A j \in 1..(i - 1) : l[j] # x

(* C22: remove_duplicates returns a new list that holds each distinct        *)
(* element of the input exactly once, in the order of the first occurrences  *)
(* in the input; the input list is unchanged; remove_duplicates of the       *)
(* result returns a list equal to the result.                                *)
C22_RemoveDuplicates ==
  Done("remove_duplicates") =>
    /\ call.ret # call.args[1]
    /\ Elements(Ret) = Elements(Arg1Before)
    /\ \A x \in Elements(Arg1Before) : Occurrences(Ret, x) = 1
    /\ \A i, j \in 1..Len(Ret) :
         i < j => FirstAt(Arg1Before, Ret[i]) < FirstAt(Arg1Before, Ret[j])
    /\ Arg1After = Arg1Before
    /\ call.pc = "again" => call.mem[call.again] = Ret

C22_Witness ==
  /\ Done("remove_duplicates")
  /\ call.pc = "again"
  /\ Len(Ret) > 1
  /\ Len(Ret) < Len(Arg1Before)
  /\ Arg1Before[Len(Arg1Before)] = Arg1Before[1]

(* C23: merge_dictionaries returns a new dictionary whose keys are the keys  *)
(* of dict1 and of dict2 together, whose value for a key of dict2 is the     *)
(* value dict2 has for it and for any other key the value dict1 has; dict1   *)
(* and dict2 are as they were before the call.                               *)
C23_MergeDictionaries ==
  Done("merge_dictionaries") =>
    LET dict1 == call.before[call.args[1]]
        dict2 == call.before[call.args[2]]
    IN /\ call.ret \notin {call.args[1], call.args[2]}
       /\ DictKeys(Ret) = DictKeys(dict1) \cup DictKeys(dict2)
       /\ DistinctKeys(Ret)
       /\ \A k \in DictKeys(Ret) :
            DictGet(Ret, k) = IF k \in DictKeys(dict2) THEN DictGet(dict2, k)
                              ELSE DictGet(dict1, k)
       /\ call.mem[call.args[1]] = dict1
       /\ call.mem[call.args[2]] = dict2

C23_Witness ==
  /\ Done("merge_dictionaries")
  /\ call.args[1] # call.args[2]
  /\ \E k \in DictKeys(call.before[1]) \cap DictKeys(call.before[2]) :
       DictGet(call.before[1], k) # DictGet(call.before[2], k)
  /\ DictKeys(call.before[1]) \ DictKeys(call.before[2]) # {}
  /\ DictKeys(call.before[2]) \ DictKeys(call.before[1]) # {}

\* the items of a list that key_func sends to k, in the order of the list
ItemsWithKey(l, key_func, k) ==
  LET HasKey(x) == key_func[x] = k
  IN SelectSeq(l, HasKey)

(* C24: in the dictionary group_by_key returns, every item of the input is   *)
(* in the group under key_func(item) and in no other group, as many times as *)
(* it is in the input; no group is empty; the items of a group are in the    *)
(* order they have in the input.                                             *)
C24_GroupByKey ==
  Done("group_by_key") =>
    LET items == Arg1Before
        key_func == call.args[2]
    IN /\ DistinctKeys(Ret)
       /\ \A x \in Elements(items) : \A k \in DictKeys(Ret) :
            x \in Elements(DictGet(Ret, k)) <=> k = key_func[x]
       /\ \A x \in Elements(items) : key_func[x] \in DictKeys(Ret)
       /\ \A k \in DictKeys(Ret) : Len(DictGet(Ret, k)) > 0
       /\ \A k \in DictKeys(Ret) :
            DictGet(Ret, k) = ItemsWithKey(items, key_func, k)

C24_Witness ==
  /\ Done("group_by_key")
  /\ Len(Ret) > 1
  /\ \E k \in DictKeys(Ret) :
       /\ Len(DictGet(Ret, k)) > 2
       /\ DictGet(Ret, k)[1] # DictGet(Ret, k)[2]
  /\ \E i \in 2..(Len(Arg1Before) - 1) :
       /\ call.args[2][Arg1Before[i]] # call.args[2][Arg1Before[1]]
       /\ call.args[2][Arg1Before[i + 1]] = call.args[2][Arg1Before[1]]

(* C25: find_maximum returns None for the empty list; for a list that is    *)
(* not empty it returns an element of the list that is greater than or      *)
(* equal to every element of the list.                                      *)
C25_FindMaximum ==
  Done("find_maximum") =>
    LET numbers == call.args[1]
    IN /\ Len(numbers) = 0 => call.ret = PyNone
       /\ Len(numbers) > 0 =>
            /\ call.ret # PyNone
            /\ call.ret.v \in Elements(numbers)
            /\ \A x \in Elements(numbers) : call.ret.v >= x

\* the maximum is not the first element, occurs twice, once at the end, and
\* every number is negative
C25_Witness ==
  /\ Done("find_maximum")
  /\ Len(call.args[1]) > 2
  /\ \A x \in Elements(call.args[1]) : x < 0
  /\ call.ret.v # call.args[1][1]
  /\ call.ret.v = call.args[1][Len(call.args[1])]
  /\ Occurrences(call.args[1], call.ret.v) = 2

\* whether no two items of a dict have the same value
UniqueValues(d) == \A i, j \in 1..Len(d) : d[i][2] = d[j][2] => i = j

(* C26: for a dictionary whose values are unique, invert_dictionary returns *)
(* a new dictionary whose keys are the values of the original, each mapped  *)
(* to the key that had it; invert_dictionary of the result is equal to the  *)
(* original; the original is not modified.                                  *)
C26_InvertDictionary ==
  Done("invert_dictionary") /\ UniqueValues(Arg1Before) =>
    LET d == Arg1Before
    IN /\ call.ret # call.args[1]
       /\ DistinctKeys(Ret)
       /\ Len(Ret) = Len(d)
       /\ \A i \in 1..Len(d) :
            d[i][2] \in DictKeys(Ret) /\ DictGet(Ret, d[i][2]) = d[i][1]
       /\ Arg1After = d
       /\ call.pc = "again" =>
            /\ call.again \notin {call.args[1], call.ret}
            /\ DictEq(call.mem[call.again], d)

C26_Witness ==
  /\ Done("invert_dictionary")
  /\ call.pc = "again"
  /\ UniqueValues(Arg1Before)
  /\ Len(Arg1Before) > 1
  /\ DictKeys(Ret) = {Arg1Before[i][2] : i \in 1..Len(Arg1Before)}

(* C29: after pytest_collection_modifyitems every collected test has at      *)
(* most one category marker: 'python' when its path contains                 *)
(* 'python-basics', otherwise 'sql' when its path contains                   *)
(* 'sql-fundamentals', otherwise none; a test whose path contains both has   *)
(* 'python' only.                                                            *)
C29_OneCategoryMarker ==
  Done("pytest_collection_modifyitems") =>
    \A i \in 1..Len(Arg1After) :
      LET fspath == Arg1Before[i].fspath
          markers == Arg1After[i].own_markers
          python == \E j \in 1..Len(fspath) : fspath[j] = "python-basics"
          sql == \E j \in 1..Len(fspath) : fspath[j] = "sql-fundamentals"
      IN /\ Len(Arg1After) = Len(Arg1Before)
         /\ Arg1After[i].fspath = fspath
         /\ Len(markers) <= 1
         /\ python => markers = <<"python">>
         /\ ~python /\ sql => markers = <<"sql">>
         /\ ~python /\ ~sql => markers = <<>>

\* a test under both names, one under sql-fundamentals only
C29_Witness ==
  /\ Done("pytest_collection_modifyitems")
  /\ Len(Arg1After) > 1
  /\ Arg1After[1].fspath = <<"sql-fundamentals", "python-basics">>
  /\ Arg1After[1].own_markers = <<"python">>
  /\ Arg1After[2].fspath = <<"sql-fundamentals", "/">>
  /\ Arg1After[2].own_markers = <<"sql">>

(* C30: frequency_sort returns a permutation of the input in which an item   *)
(* that occurs more often comes before one that occurs less often, items     *)
(* that occur equally often are in the order of their first occurrences in   *)
(* the input, and equal items are next to each other; the input list is not  *)
(* modified.                                                                 *)
C30_FrequencySort ==
  Done("frequency_sort") =>
    LET items == Arg1Before
    IN /\ Len(Ret) = Len(items)
       /\ \A x \in Elements(items) \cup Elements(Ret) :
            Occurrences(Ret, x) = Occurrences(items, x)
       /\ \A i, j \in 1..Len(Ret) :
            i < j =>
              /\ Occurrences(items, Ret[i]) >= Occurrences(items, Ret[j])
              /\ (Occurrences(items, Ret[i]) = Occurrences(items, Ret[j])
                  /\ Ret[i] # Ret[j])
                   => FirstAt(items, Ret[i]) < FirstAt(items, Ret[j])
              /\ Ret[i] = Ret[j] => \A k \in i..j : Ret[k] = Ret[i]
       /\ Arg1After = items

\* two items that occur twice each, alternating in the input
C30_Witness ==
  /\ Done("frequency_sort")
  /\ Len(Arg1Before) > 3
  /\ Arg1Before[1] = Arg1Before[3]
  /\ Arg1Before[2] = Arg1Before[4]
  /\ Arg1Before[1] # Arg1Before[2]
  /\ Ret # Arg1Before

----------------------------------------------------------------------------
(* C27: the db fixture of a test is set up before its queries fixture: when  *)
(* the queries fixture starts, the connection of the test is open and handed *)
(* out; when load_queries raised for a test (the query file is missing), a   *)
(* connection was opened for that test, and it is closed by the time the     *)
(* next test starts.                                                         *)
C27_ConnectionOpenedThenClosed ==
  \A t \in Tests :
    /\ (t = cur /\ pc = "queries") =>
         /\ Len(conns) = t
         /\ conns[t].handed
         /\ conns[t].state = "open"
         /\ outcome[t] = NotRun
    /\ (outcome[t] # NotRun /\ outcome[t].exc = "FileNotFoundError") =>
         /\ Len(conns) >= t
         /\ conns[t].handed
         /\ dbs[conns[t].db].name = DatabaseName
         /\ t < cur => conns[t].state = "closed"

\* load_queries raised for the first test and the second test is starting
C27_Witness ==
  /\ ~fileExists
  /\ cur = 2
  /\ pc = "connect"
  /\ outcome[1].exc = "FileNotFoundError"
  /\ Len(conns) = 1
  /\ conns[1].handed
  /\ conns[1].state = "closed"

----------------------------------------------------------------------------
\* how far the db fixture has come with a connection
FixtureSteps(c) ==
  <<c.schema, c.seeded, c.committed, c.handed, c.state = "closed">>

\* connect, schema, seed, commit, yield, close: each step after the one
\* before it
FixtureSequence ==
  {<<FALSE, FALSE, FALSE, FALSE, FALSE>>, <<TRUE, FALSE, FALSE, FALSE, FALSE>>,
   <<TRUE, TRUE, FALSE, FALSE, FALSE>>, <<TRUE, TRUE, TRUE, FALSE, FALSE>>,
   <<TRUE, TRUE, TRUE, TRUE, FALSE>>, <<TRUE, TRUE, TRUE, TRUE, TRUE>>}

(* C28: the load_queries of the three test files are one extractor: what the *)
(* load_queries of the file that runs returned for the text of the query     *)
(* file is what each of the three returns for that text; and in each of the  *)
(* three files the db fixture connects, applies the schema, seeds, commits,  *)
(* yields and closes, in that order: a test that is over leaves a connection *)
(* that went through all the steps, whichever the file.                      *)
C28_ThreeCopiesAgree ==
  /\ \A i \in 1..Len(loads) :
       /\ loads[i] = load_queries(content)
       /\ loads[i] = load_queries_filtering(content)
       /\ loads[i] = load_queries_joins(content)
  /\ \A ex \in Exercises : \A i \in 1..Len(conns) :
       exercise = ex =>
         /\ FixtureSteps(conns[i]) \in FixtureSequence
         /\ i < cur => FixtureSteps(conns[i]) = <<TRUE, TRUE, TRUE, TRUE, TRUE>>

\* the test file of the joins exercise has run and its load_queries
\* returned two entries
C28_Witness ==
  /\ exercise = "03-joins"
  /\ pc = "finished"
  /\ Len(loads) = NumTests
  /\ Cardinality(DOMAIN loads[1]) = 2
  /\ \A i \in 1..Len(conns) : conns[i].state = "closed"

====
